---- MODULE Spec2Model ----
(***************************************************************************)
(* RAGTools (src/mcp_server/tools/rag_tools.py): the tool facade over the  *)
(* pipeline's vector table, the Markdown directory and the templates.      *)
(*                                                                         *)
(* A string is a sequence of tokens; the token "'" is the single quote,    *)
(* every other token stands for a run of characters without a quote.       *)
(* A table row is [text, vector, metadata]; the table is a sequence of     *)
(* rows (the vector table keeps duplicates).                                *)
(***************************************************************************)
EXTENDS Integers, Sequences, FiniteSets, TLC

VARIABLES
    table,       \* self.pipeline.table: the rows of the vector table
    mdFiles,     \* the Markdown directory (settings.kak_tor_md_base_path): name -> content
    templates,   \* the templates directory: template name -> content
    embedModel,  \* the embedding model self.pipeline.embed uses now
    opName,      \* the last operation called ("none" after construction)
    opArgs,      \* its arguments
    preTable,    \* the table when it was called
    preMd,       \* the Markdown directory when it was called
    outcome,     \* [kind |-> "return", value |-> v] or [kind |-> "raise", exc |-> e]
    trace        \* the external calls it made, in order: [ev, arg]

vars == <<table, mdFiles, templates, embedModel, opName, opArgs, preTable, preMd, outcome, trace>>

----------------------------------------------------------------------------
(* Bounds of the model *)

MaxStored == 2

MaxPdfs == 2

MaxChunks == 2

MaxBatch == 2

----------------------------------------------------------------------------
(* Strings *)

Q == "'"

Str(s) == <<s>>

EmptyStr == <<>>

\* {}: the dict, or the directory, without an entry
EmptyDict == [x \in {} |-> <<>>]

\* Optional[...] arguments
None == [some |-> FALSE]

Some(v) == [some |-> TRUE, val |-> v]

Returned(v) == [kind |-> "return", value |-> v]

Raised(e) == [kind |-> "raise", exc |-> e]

NoCall == [kind |-> "none"]

----------------------------------------------------------------------------
(* The vector table's filter expressions: a conjunction of                 *)
(* "metadata.<key> = <literal>" clauses, the literal in SQL syntax: it     *)
(* opens with a quote, a doubled quote inside it is one quote character,   *)
(* a single quote closes it, and nothing may follow the closing quote.     *)

RECURSIVE ScanLiteral(_, _, _)
ScanLiteral(s, i, acc) ==
    IF i > Len(s) THEN [ok |-> FALSE, val |-> acc]
    ELSE IF s[i] = Q
         THEN IF i + 1 <= Len(s) /\ s[i + 1] = Q
              THEN ScanLiteral(s, i + 2, Append(acc, Q))
              ELSE [ok |-> i = Len(s), val |-> acc]
         ELSE ScanLiteral(s, i + 1, Append(acc, s[i]))

ParseLiteral(s) ==
    IF Len(s) >= 1 /\ s[1] = Q
    THEN ScanLiteral(s, 2, <<>>)
    ELSE [ok |-> FALSE, val |-> <<>>]

ExprParses(expr) == \A c \in expr : ParseLiteral(c.val).ok

RowMatches(row, expr) ==
    \A c \in expr :
        /\ c.key \in DOMAIN row.metadata
        /\ row.metadata[c.key] = ParseLiteral(c.val).val

TableSearch(tbl, expr) == SelectSeq(tbl, LAMBDA r : RowMatches(r, expr))

TableDelete(tbl, expr) == SelectSeq(tbl, LAMBDA r : ~RowMatches(r, expr))

TableAdd(tbl, entries) == tbl \o entries

----------------------------------------------------------------------------
(* update_chunk_metadata *)

QuoteValue(v) == <<Q>> \o v \o <<Q>>

FilterExpr(metadata_filter) ==
    {[key |-> k, val |-> QuoteValue(metadata_filter[k])] : k \in DOMAIN metadata_filter}

MergedMeta(meta, new_metadata) ==
    [k \in DOMAIN meta \cup DOMAIN new_metadata |->
        IF k \in DOMAIN new_metadata THEN new_metadata[k] ELSE meta[k]]

UpdatedEntries(df, new_metadata) ==
    [i \in 1..Len(df) |->
        [text |-> df[i].text,
         vector |-> df[i].vector,
         metadata |-> MergedMeta(df[i].metadata, new_metadata)]]

\* no operation was called yet
Idle == opName = "none"

Called(name, args) ==
    /\ opName' = name
    /\ opArgs' = args
    /\ preTable' = table
    /\ preMd' = mdFiles

\* The filter expression does not parse: where(...) raises before anything
\* is written.
UpdateSearchRaises(metadata_filter, new_metadata) ==
    LET expr == FilterExpr(metadata_filter) IN
    /\ ~ExprParses(expr)
    /\ Called("update_chunk_metadata", [filter |-> metadata_filter, new |-> new_metadata])
    /\ outcome' = Raised("FilterError")
    /\ trace' = <<[ev |-> "search", arg |-> 0]>>
    /\ UNCHANGED <<table, mdFiles, templates, embedModel>>

\* No row matches: df.empty, return 0.
UpdateNoMatch(metadata_filter, new_metadata) ==
    LET expr == FilterExpr(metadata_filter)
        df == TableSearch(table, expr) IN
    /\ ExprParses(expr)
    /\ df = <<>>
    /\ Called("update_chunk_metadata", [filter |-> metadata_filter, new |-> new_metadata])
    /\ outcome' = Returned(0)
    /\ trace' = <<[ev |-> "search", arg |-> 0]>>
    /\ UNCHANGED <<table, mdFiles, templates, embedModel>>

\* Rows match: delete them (an exception of delete is logged and ignored),
\* add the rewritten entries, return their number.
UpdateRewrite(metadata_filter, new_metadata, delete_raises) ==
    LET expr == FilterExpr(metadata_filter)
        df == TableSearch(table, expr)
        kept == IF delete_raises THEN table ELSE TableDelete(table, expr)
        updated_entries == UpdatedEntries(df, new_metadata) IN
    /\ ExprParses(expr)
    /\ df # <<>>
    /\ Len(kept) + Len(updated_entries) <= MaxStored
    /\ Called("update_chunk_metadata", [filter |-> metadata_filter, new |-> new_metadata])
    /\ table' = TableAdd(kept, updated_entries)
    /\ outcome' = Returned(Len(updated_entries))
    /\ trace' = <<[ev |-> "search", arg |-> Len(df)],
                  [ev |-> IF delete_raises THEN "delete_raised" ELSE "delete", arg |-> Len(df)],
                  [ev |-> "add", arg |-> Len(updated_entries)]>>
    /\ UNCHANGED <<mdFiles, templates, embedModel>>

----------------------------------------------------------------------------
(* The pipeline: embedding client, vector dimension, reset *)

VectorDim == 2

EmbedModels == {"m1", "m2", "wide"}

Dim(m) == IF m = "wide" THEN VectorDim + 1 ELSE VectorDim

\* embed.embed_query(text): the model's vector of the text
EmbedQuery(m, text) == [j \in 1..Dim(m) |-> <<m, text>>]

\* _validate_vector_dim(vec) raises unless the vector has the table's dimension
ValidVectorDim(vec) == Len(vec) = VectorDim

\* reset_vectorstore(): the table is dropped and created again, empty
ResetVectorstore == <<>>

----------------------------------------------------------------------------
(* rebuild_all_embeddings *)

\* A rebuild that copies each row's stored vector instead of embedding its text.
RebuildEntriesKeepVector(df, m) ==
    [i \in 1..Len(df) |->
        [text |-> df[i].text,
         vector |-> df[i].vector,
         metadata |-> df[i].metadata]]

RebuildEntries(df, m) ==
    [i \in 1..Len(df) |->
        [text |-> df[i].text,
         vector |-> EmbedQuery(m, df[i].text),
         metadata |-> df[i].metadata]]

EmbedTrace(n) == [i \in 1..n |-> [ev |-> "embed", arg |-> 1]]

RebuildTrace(n) ==
    EmbedTrace(n) \o <<[ev |-> "reset", arg |-> 0], [ev |-> "add", arg |-> n]>>

\* The first row's new vector has the wrong dimension: _validate_vector_dim
\* raises inside the loop, before the reset.
RebuildDimRaises(batch_size) ==
    /\ table # <<>>
    /\ ~ValidVectorDim(EmbedQuery(embedModel, table[1].text))
    /\ Called("rebuild_all_embeddings", [batch_size |-> batch_size])
    /\ outcome' = Raised("ValueError")
    /\ trace' = EmbedTrace(1)
    /\ UNCHANGED <<table, mdFiles, templates, embedModel>>

\* The table is empty: add([]) after the reset may be refused by the table.
RebuildEmptyAddRaises(batch_size) ==
    /\ table = <<>>
    /\ Called("rebuild_all_embeddings", [batch_size |-> batch_size])
    /\ table' = ResetVectorstore
    /\ outcome' = Raised("ValueError")
    /\ trace' = RebuildTrace(0)
    /\ UNCHANGED <<mdFiles, templates, embedModel>>

RebuildDone(batch_size) ==
    LET entries == RebuildEntries(table, embedModel) IN
    /\ \A i \in 1..Len(entries) : ValidVectorDim(entries[i].vector)
    /\ Called("rebuild_all_embeddings", [batch_size |-> batch_size])
    /\ table' = TableAdd(ResetVectorstore, entries)
    /\ outcome' = Returned(None)
    /\ trace' = RebuildTrace(Len(entries))
    /\ UNCHANGED <<mdFiles, templates, embedModel>>

----------------------------------------------------------------------------
(* Documents and chunks *)

Meta(filename, project, tahun) ==
    [filename |-> filename, project |-> project, tahun |-> tahun]

Row(text, m, meta) == [text |-> text, vector |-> EmbedQuery(m, text), metadata |-> meta]

PdfName(stem) == <<stem, ".pdf">>

MdName(stem) == <<stem, ".md">>

\* A PDF of a directory: its stem, the step of its processing that raises
\* ("none" when none does) and the number of chunks its document yields.
ConvertRaises(pdf) == pdf.fails = "convert"

WriteRaises(pdf) == pdf.fails = "write"

ChunkRaises(pdf) == pdf.fails = "chunk"

\* result.document.export_to_markdown()
MdContent(pdf) == <<"markdown of", pdf.stem>>

\* pipeline._chunk_document(document, filename, project, tahun): one entry per
\* chunk of the document, each with the project and the year attached
ChunkDocument(pdf, project, tahun, m) ==
    [i \in 1..pdf.n |->
        Row(<<PdfName(pdf.stem), i>>, m, Meta(PdfName(pdf.stem), project, tahun))]

\* out_md.write_text(md_content)
WriteText(dir, name, content) ==
    [n \in DOMAIN dir \cup {name} |-> IF n = name THEN content ELSE dir[n]]

Ev(e, a) == [ev |-> e, arg |-> a]

----------------------------------------------------------------------------
(* add_product_knowledge *)

\* A loop that gives up the remaining PDFs at the first one that raises.
RECURSIVE ProductLoopStopsAtError(_, _, _, _, _, _)
ProductLoopStopsAtError(pdf_files, i, st, project_name, tahun, m) ==
    IF i > Len(pdf_files) THEN st
    ELSE LET pdf == pdf_files[i] IN
         IF ConvertRaises(pdf) \/ ChunkRaises(pdf)
         THEN [st EXCEPT !.trace = Append(@, Ev("raised", pdf.stem))]
         ELSE ProductLoopStopsAtError(pdf_files, i + 1,
                  [st EXCEPT !.entries = @ \o ChunkDocument(pdf, project_name, tahun, m),
                             !.trace = @ \o <<Ev("convert", pdf.stem), Ev("chunk", pdf.stem)>>],
                  project_name, tahun, m)

\* for pdf in pdf_files: try convert, chunk, extend; except: log
RECURSIVE ProductLoop(_, _, _, _, _, _)
ProductLoop(pdf_files, i, st, project_name, tahun, m) ==
    IF i > Len(pdf_files) THEN st
    ELSE LET pdf == pdf_files[i]
             next ==
                 IF ConvertRaises(pdf)
                 THEN [st EXCEPT !.trace = Append(@, Ev("convert_raised", pdf.stem))]
                 ELSE IF ChunkRaises(pdf)
                 THEN [st EXCEPT !.trace = @ \o <<Ev("convert", pdf.stem), Ev("chunk_raised", pdf.stem)>>]
                 ELSE [st EXCEPT !.entries = @ \o ChunkDocument(pdf, project_name, tahun, m),
                                 !.trace = @ \o <<Ev("convert", pdf.stem), Ev("chunk", pdf.stem)>>]
         IN ProductLoop(pdf_files, i + 1, next, project_name, tahun, m)

LoopStart == [entries |-> <<>>, md |-> mdFiles, trace |-> <<>>]

\* if entries: table.add(entries)
AddIfAny(st) ==
    /\ table' = IF st.entries # <<>> THEN TableAdd(table, st.entries) ELSE table
    /\ trace' = IF st.entries # <<>>
                THEN Append(st.trace, Ev("add", Len(st.entries)))
                ELSE st.trace
    /\ mdFiles' = st.md
    /\ outcome' = Returned(None)

AddProductKnowledge(pdf_files, project_name, tahun) ==
    /\ Idle
    /\ Called("add_product_knowledge",
              [pdf_files |-> pdf_files, project |-> Some(project_name), tahun |-> Some(tahun)])
    /\ IF pdf_files = <<>>
       THEN /\ outcome' = Returned(None)
            /\ trace' = <<>>
            /\ UNCHANGED <<table, mdFiles>>
       ELSE AddIfAny(ProductLoop(pdf_files, 1, LoopStart, project_name, tahun, embedModel))
    /\ UNCHANGED <<templates, embedModel>>

----------------------------------------------------------------------------
(* add_kak_tor_knowledge *)

\* A default that replaces None only, and lets an empty string through.
OrDefaultNoneOnly(given, default) == IF given.some THEN given.val ELSE default

\* given or default: the default replaces None and the empty string
OrDefault(given, default) ==
    IF given.some /\ given.val # EmptyStr THEN given.val ELSE default

\* for pdf in pdf_files: try convert, export, write, chunk, extend; except: log
RECURSIVE KakTorLoop(_, _, _, _, _, _)
KakTorLoop(pdf_files, i, st, project, tahun, m) ==
    IF i > Len(pdf_files) THEN st
    ELSE LET pdf == pdf_files[i]
             written == [st EXCEPT !.md = WriteText(@, MdName(pdf.stem), MdContent(pdf)),
                                   !.trace = @ \o <<Ev("convert", pdf.stem), Ev("write", pdf.stem)>>]
             next ==
                 IF ConvertRaises(pdf)
                 THEN [st EXCEPT !.trace = Append(@, Ev("convert_raised", pdf.stem))]
                 ELSE IF WriteRaises(pdf)
                 THEN [st EXCEPT !.trace = @ \o <<Ev("convert", pdf.stem), Ev("write_raised", pdf.stem)>>]
                 ELSE IF ChunkRaises(pdf)
                 THEN [written EXCEPT !.trace = Append(@, Ev("chunk_raised", pdf.stem))]
                 ELSE [written EXCEPT
                          !.entries = @ \o ChunkDocument(pdf, OrDefault(project, Str("kak_tor")),
                                                         OrDefault(tahun, Str("2025")), m),
                          !.trace = Append(@, Ev("chunk", pdf.stem))]
         IN KakTorLoop(pdf_files, i + 1, next, project, tahun, m)

AddKakTorKnowledge(pdf_files, project, tahun) ==
    /\ Idle
    /\ Called("add_kak_tor_knowledge",
              [pdf_files |-> pdf_files, project |-> project, tahun |-> tahun])
    /\ IF pdf_files = <<>>
       THEN /\ outcome' = Returned(None)
            /\ trace' = <<>>
            /\ UNCHANGED <<table, mdFiles>>
       ELSE AddIfAny(KakTorLoop(pdf_files, 1, LoopStart, project, tahun, embedModel))
    /\ UNCHANGED <<templates, embedModel>>

----------------------------------------------------------------------------
(* build_summary_tender_payload *)

\* A validation that looks at kak_tor_name before the template.
SummaryTenderPayloadNameFirst(tmplDir, mdDir, prompt_instruction_name, kak_tor_name) ==
    IF ~kak_tor_name.some THEN Raised("ValueError")
    ELSE IF prompt_instruction_name \notin DOMAIN tmplDir THEN Raised("FileNotFoundError")
    ELSE IF kak_tor_name.val \notin DOMAIN mdDir THEN Raised("FileNotFoundError")
    ELSE Returned([instruction |-> tmplDir[prompt_instruction_name],
                   context |-> <<"---\n# ">> \o kak_tor_name.val \o <<"\n">>
                               \o mdDir[kak_tor_name.val] \o <<"\n">>])

\* tmplDir is keyed by the template's name without ".txt", mdDir by file name
SummaryTenderPayload(tmplDir, mdDir, prompt_instruction_name, kak_tor_name) ==
    IF prompt_instruction_name \notin DOMAIN tmplDir THEN Raised("FileNotFoundError")
    ELSE IF ~kak_tor_name.some THEN Raised("ValueError")
    ELSE IF kak_tor_name.val \notin DOMAIN mdDir THEN Raised("FileNotFoundError")
    ELSE Returned([instruction |-> tmplDir[prompt_instruction_name],
                   context |-> <<"---\n# ">> \o kak_tor_name.val \o <<"\n">>
                               \o mdDir[kak_tor_name.val] \o <<"\n">>])

BuildSummaryTenderPayload(prompt_instruction_name, kak_tor_name) ==
    /\ Called("build_summary_tender_payload",
              [prompt_instruction_name |-> prompt_instruction_name,
               kak_tor_name |-> kak_tor_name])
    /\ outcome' = SummaryTenderPayload(templates, mdFiles, prompt_instruction_name, kak_tor_name)
    /\ trace' = <<>>
    /\ UNCHANGED <<table, mdFiles, templates, embedModel>>

----------------------------------------------------------------------------
(* States *)


\* A store filled by earlier ingestions, some of them under an earlier model.
StoredProjects == {Str("a"), <<Q>>, <<Q, Q>>}

StoredTahun == {Str("2024"), Str("2025")}

StoredRows(models, projects) ==
    {Row(<<PdfName("a"), i>>, m, Meta(PdfName("a"), p, t)) :
        i \in 1..2, m \in models, p \in projects, t \in StoredTahun}

StoredTables(rows) == UNION {[1..n -> rows] : n \in 0..MaxStored}

TemplateNames == {Str("summary"), Str("tender")}

NoFiles == EmptyDict

Fresh ==
    /\ opName = "none"
    /\ opArgs = None
    /\ preTable = table
    /\ preMd = mdFiles
    /\ outcome = NoCall
    /\ trace = <<>>

Fixed ==
    /\ mdFiles = NoFiles
    /\ templates = [n \in TemplateNames |-> <<"text of", n>>]

\* A store that holds rows already, all embedded by the current model.
InitStored ==
    /\ table \in StoredTables(StoredRows({"m1"}, StoredProjects))
    /\ embedModel = "m1"
    /\ Fixed
    /\ Fresh

\* A store whose rows were embedded by earlier models.
InitStale ==
    /\ table \in StoredTables(StoredRows({"m1", "m2"}, {Str("a")}))
    /\ embedModel \in EmbedModels
    /\ Fixed
    /\ Fresh

\* A store of one row and a Markdown directory that holds an older export.
InitIngest ==
    /\ table \in {<<>>, <<Row(<<PdfName("a"), 1>>, "m1",
                                Meta(PdfName("a"), Str("kak_tor"), Str("2025")))>>}
    /\ mdFiles \in {NoFiles, [n \in {MdName("a")} |-> <<"older export">>]}
    /\ templates = [n \in TemplateNames |-> <<"text of", n>>]
    /\ embedModel = "m1"
    /\ Fresh

\* Directories of templates and Markdown files as they may be found.
FileDirs(names, content(_)) ==
    UNION {[ns -> {content(n) : n \in ns}] : ns \in SUBSET names}

InitFiles ==
    /\ table = <<>>
    /\ embedModel = "m1"
    /\ templates \in {d \in FileDirs(TemplateNames, LAMBDA n : <<"text of", n>>) :
                         \A n \in DOMAIN d : d[n] = <<"text of", n>>}
    /\ mdFiles \in {d \in FileDirs({MdName("a"), MdName("b")}, LAMBDA n : <<"markdown of", n[1]>>) :
                       \A n \in DOMAIN d : d[n] = <<"markdown of", n[1]>>}
    /\ Fresh

----------------------------------------------------------------------------
(* Specifications *)

FilterKeys == {"project", "tahun"}

FilterValues == [project |-> StoredProjects, tahun |-> StoredTahun]

NewValues == [project |-> {Str("a")}, tahun |-> {Str("2024")}]

\* dicts over the metadata keys project and tahun
MetaDicts(values) ==
    UNION {{d \in [ks -> UNION {values[k] : k \in ks}] :
                \A k \in ks : d[k] \in values[k]} : ks \in SUBSET FilterKeys}

\* The filter names at least one key: an empty dict makes the expression the
\* empty string, which is no filter expression of the table.
NextUpdate ==
    \E metadata_filter \in MetaDicts(FilterValues) \ {EmptyDict},
       new_metadata \in MetaDicts(NewValues) :
        \/ UpdateSearchRaises(metadata_filter, new_metadata)
        \/ UpdateNoMatch(metadata_filter, new_metadata)
        \/ \E delete_raises \in BOOLEAN :
              UpdateRewrite(metadata_filter, new_metadata, delete_raises)

SpecUpdate == InitStored /\ [][NextUpdate]_vars

NextRebuild ==
    \E batch_size \in 1..MaxBatch :
        \/ RebuildDimRaises(batch_size)
        \/ RebuildEmptyAddRaises(batch_size)
        \/ RebuildDone(batch_size)

SpecRebuild == InitStale /\ [][NextRebuild]_vars

Stems == {"a", "b", "c"}

Pdfs ==
    {[stem |-> st, fails |-> f, n |-> 0] : st \in Stems, f \in {"convert", "write", "chunk"}}
    \cup {[stem |-> st, fails |-> "none", n |-> k] : st \in Stems, k \in 0..MaxChunks}

\* the listings of a directory: PDFs of different names, in the order glob
\* yields them
Listings ==
    {l \in UNION {[1..n -> Pdfs] : n \in 0..MaxPdfs} :
        \A i, j \in 1..Len(l) : i # j => l[i].stem # l[j].stem}

OptionalStrings(given) == {None, Some(EmptyStr)} \cup {Some(v) : v \in given}

\* One ingestion call on each store and Markdown directory of InitIngest: what
\* a call does depends on nothing but the store, the directories and its
\* arguments.
IngestProduct ==
    /\ Idle
    /\ \E pdf_files \in Listings, project_name \in {Str("product_standard"), Str("x")} :
           AddProductKnowledge(pdf_files, project_name, Str("2025"))

IngestKakTor ==
    /\ Idle
    /\ \E pdf_files \in Listings, project \in OptionalStrings({Str("x")}),
           tahun \in OptionalStrings({Str("2024")}) :
           AddKakTorKnowledge(pdf_files, project, tahun)

NextIngest == IngestProduct \/ IngestKakTor

SpecIngest == InitIngest /\ [][NextIngest]_vars

NextPayload ==
    \E prompt_instruction_name \in TemplateNames,
       kak_tor_name \in OptionalStrings({MdName("a"), MdName("b")}) :
        BuildSummaryTenderPayload(prompt_instruction_name, kak_tor_name)

SpecPayload == InitFiles /\ [][NextPayload]_vars

----------------------------------------------------------------------------
(* Properties *)

Range(s) == {s[i] : i \in 1..Len(s)}

\* the multiset of a sequence's elements
SeqBag(s) == [x \in Range(s) |-> Cardinality({i \in 1..Len(s) : s[i] = x})]

\* the row satisfies every key = value pair of the filter dict
FilterHolds(row, f) ==
    \A k \in DOMAIN f : k \in DOMAIN row.metadata /\ row.metadata[k] = f[k]

MatchCount(tbl, f) == Cardinality({i \in 1..Len(tbl) : FilterHolds(tbl[i], f)})

UpdateReturned == opName = "update_chunk_metadata" /\ outcome.kind = "return"

\* C1: update_chunk_metadata returns the number of rows of the table, as it
\* was at the call, that satisfy every key = value pair of metadata_filter;
\* when no row does, it returns 0 and leaves the table unchanged.
C1_ReturnsMatchCount ==
    UpdateReturned =>
        /\ outcome.value = MatchCount(preTable, opArgs.filter)
        /\ MatchCount(preTable, opArgs.filter) = 0 => table = preTable

\* what the table is to hold after the update: each matching row with its
\* metadata merged, each other row as it was
UpdateExpected(tbl, f, new) ==
    [i \in 1..Len(tbl) |->
        IF FilterHolds(tbl[i], f)
        THEN [text |-> tbl[i].text,
              vector |-> tbl[i].vector,
              metadata |-> [k \in DOMAIN tbl[i].metadata \cup DOMAIN new |->
                               IF k \in DOMAIN new THEN new[k] ELSE tbl[i].metadata[k]]]
        ELSE tbl[i]]

\* C2: after update_chunk_metadata returns, the table holds every row that
\* matched the filter once, with its text and vector and the merged metadata,
\* and every other row unchanged.
C2_MatchedMergedOthersKept ==
    UpdateReturned =>
        SeqBag(table) = SeqBag(UpdateExpected(preTable, opArgs.filter, opArgs.new))

RebuildReturned == opName = "rebuild_all_embeddings" /\ outcome.kind = "return"

TextMeta(tbl) == [i \in 1..Len(tbl) |-> <<tbl[i].text, tbl[i].metadata>>]

\* C3: after rebuild_all_embeddings returns, the table holds the same
\* multiset of (text, metadata) pairs as at the call, and every row's vector
\* is the current model's embedding of the row's text.
C3_RebuildKeepsRowsAndReembeds ==
    RebuildReturned =>
        /\ Len(table) = Len(preTable)
        /\ SeqBag(TextMeta(table)) = SeqBag(TextMeta(preTable))
        /\ \A i \in 1..Len(table) :
               table[i].vector = EmbedQuery(embedModel, table[i].text)

\* a rebuild of two rows returned and replaced a vector of another model
C3_Witness ==
    /\ RebuildReturned
    /\ Len(preTable) >= 2
    /\ \E i \in 1..Len(preTable) :
           /\ preTable[i].vector # EmbedQuery(embedModel, preTable[i].text)
           /\ table[i].vector = EmbedQuery(embedModel, preTable[i].text)

\* C4: no embedding step and no table.add call of rebuild_all_embeddings
\* handles more than batch_size chunks.
C4_BatchesWithinBatchSize ==
    opName = "rebuild_all_embeddings" =>
        \A i \in 1..Len(trace) :
            trace[i].ev \in {"embed", "add"} => trace[i].arg <= opArgs.batch_size

PayloadCalled == opName = "build_summary_tender_payload"

TemplateIsFile == opArgs.prompt_instruction_name \in DOMAIN templates

NameGiven == opArgs.kak_tor_name # None

MarkdownIsFile == NameGiven /\ opArgs.kak_tor_name.val \in DOMAIN mdFiles

PayloadKeysExact ==
    outcome.kind = "return" => DOMAIN outcome.value = {"instruction", "context"}

IngestCalled == opName \in {"add_product_knowledge", "add_kak_tor_knowledge"}

\* the PDF went through every step of the called operation without an error
ProcessedOk(pdf) ==
    IF opName = "add_product_knowledge"
    THEN pdf.fails \notin {"convert", "chunk"}
    ELSE pdf.fails = "none"

\* the caller's value, or the default when the caller gave None or ""
CallerOr(given, default) ==
    IF given = None \/ given = Some(EmptyStr) THEN default ELSE given.val

PassedProject ==
    IF opName = "add_product_knowledge" THEN opArgs.project.val
    ELSE CallerOr(opArgs.project, Str("kak_tor"))

PassedTahun ==
    IF opName = "add_product_knowledge" THEN opArgs.tahun.val
    ELSE CallerOr(opArgs.tahun, Str("2025"))

RECURSIVE Concat(_)
Concat(ss) == IF ss = <<>> THEN <<>> ELSE Head(ss) \o Concat(Tail(ss))

\* the chunks of the PDFs processed without error, in the directory's order
ExpectedEntries ==
    LET ok == SelectSeq(opArgs.pdf_files, ProcessedOk) IN
    Concat([i \in 1..Len(ok) |-> ChunkDocument(ok[i], PassedProject, PassedTahun, embedModel)])

AddEvents == {i \in 1..Len(trace) : trace[i].ev = "add"}

\* C6: add_product_knowledge and add_kak_tor_knowledge skip a PDF whose
\* processing raises and go on: the rows added are exactly the chunks of the
\* PDFs processed without error, added by at most one table.add call, made
\* after the last PDF; with no chunk to add, table.add is not called and the
\* table is unchanged.
C6_FailedPdfSkipped ==
    IngestCalled =>
        /\ outcome = Returned(None)
        /\ table = preTable \o ExpectedEntries
        /\ Cardinality(AddEvents) <= 1
        /\ \A i \in AddEvents : i = Len(trace) /\ trace[i].arg = Len(ExpectedEntries)
        /\ ExpectedEntries = <<>> <=> AddEvents = {}
        /\ ExpectedEntries = <<>> => table = preTable

\* a PDF that raises is listed before a PDF whose chunks were added
C6_Witness ==
    /\ IngestCalled
    /\ table # preTable
    /\ \E i, j \in 1..Len(opArgs.pdf_files) :
           /\ i < j
           /\ ~ProcessedOk(opArgs.pdf_files[i])
           /\ ProcessedOk(opArgs.pdf_files[j])
           /\ opArgs.pdf_files[j].n >= 1

AddedRows == {k \in Len(preTable) + 1..Len(table) : TRUE}

\* C7: in add_kak_tor_knowledge every row added comes from a PDF whose
\* Markdown export '<stem>.md' was written to the Markdown directory before
\* its chunks were collected, and carries a non-empty project and tahun: the
\* caller's value, or 'kak_tor' and '2025' when that is None or empty.
C7_ExportBeforeChunksAndDefaults ==
    opName = "add_kak_tor_knowledge" =>
        \A k \in AddedRows :
            /\ \E i \in 1..Len(opArgs.pdf_files) :
                   LET pdf == opArgs.pdf_files[i] IN
                   /\ table[k].metadata.filename = PdfName(pdf.stem)
                   /\ MdName(pdf.stem) \in DOMAIN mdFiles
                   /\ mdFiles[MdName(pdf.stem)] = MdContent(pdf)
                   /\ \E w, c \in 1..Len(trace) :
                          /\ w < c
                          /\ trace[w].ev = "write" /\ trace[w].arg = pdf.stem
                          /\ trace[c].ev = "chunk" /\ trace[c].arg = pdf.stem
            /\ table[k].metadata.project # EmptyStr
            /\ table[k].metadata.tahun # EmptyStr
            /\ table[k].metadata.project = CallerOr(opArgs.project, Str("kak_tor"))
            /\ table[k].metadata.tahun = CallerOr(opArgs.tahun, Str("2025"))

\* rows were added for a caller who gave an empty project and no tahun, over
\* an older export of the same name
C7_Witness ==
    /\ opName = "add_kak_tor_knowledge"
    /\ AddedRows # {}
    /\ opArgs.project = Some(EmptyStr)
    /\ opArgs.tahun = None
    /\ MdName("a") \in DOMAIN preMd
    /\ mdFiles[MdName("a")] # preMd[MdName("a")]

====
